---- MODULE Spec2Model ----
(***************************************************************************)
(* Metadata enrichment pipeline of plugin-metadata-enrichment:             *)
(*   EnrichmentMetrics   (library/enrichment/enrichmentMetrics.ts)         *)
(*   EnrichmentHandler   (library/enrichment/enrichmentHandler.ts)         *)
(*   FileProcessor       (library/files/fileProcessor.ts)                  *)
(*   ComponentProcessor  (utils/componentProcessor.ts)                     *)
(*   EnrichMetadata.run  (commands/enrich/metadata.ts)                     *)
(* Each operation is a state machine over the variables below; the         *)
(* specifications SpecMetrics, SpecDispatch, SpecMerge, SpecXml and        *)
(* SpecClassify run one operation each from every input of a bounded set,  *)
(* and SpecRun runs the whole command.                                     *)
(***************************************************************************)
EXTENDS Integers, Sequences, FiniteSets, TLC

VARIABLES
  pc,                 \* position of the running operation
  metrics,            \* the EnrichmentMetrics object
  records,            \* the records passed to the running operation
  sent,               \* requestPost calls issued so far, per record index
  pending,            \* indices whose request is in flight
  promises,           \* per index, the settled outcome of sendEnrichmentRequest
  order,              \* indices in the order their requests settled
  remote,             \* per index, what connection.requestPost produced
  enrichmentResults,  \* the records returned by enrich / updateMetadataFiles
  sourceComponents,   \* updateMetadataFiles: the components passed in
  files,              \* content of each component's xml file on disk
  files0,             \* the same content when the operation started
  writes,             \* completed writeFile calls, per component index
  fileContents,       \* results of readComponentXmlFilesInParallel
  cursor,             \* index of the merge loop in fileContents
  xmlArg,             \* updateMetaXml: the EnrichmentResult passed in
  xmlOuts,            \* updateMetaXml: outcome of each successive pass
  metadataEntries,    \* run: the values of the --metadata flag
  project,            \* run: the components of the local project
  componentsToSkip,   \* the skip records of getComponentsToSkip
  componentsToProcess \* run: the source components that are not skipped

vars == <<pc, metrics, records, sent, pending, promises, order, remote, enrichmentResults,
          sourceComponents, files, files0, writes, fileContents, cursor, xmlArg, xmlOuts,
          metadataEntries, project, componentsToSkip, componentsToProcess>>

dispatchVars == <<records, sent, pending, promises, order, remote>>
mergeVars == <<sourceComponents, files, files0, writes, fileContents, cursor>>
xmlVars == <<xmlArg, xmlOuts>>
commandVars == <<metadataEntries, project, componentsToSkip, componentsToProcess>>

-----------------------------------------------------------------------------
(* Bounds of the model *)

MaxCalls == 3        \* add*Component calls on one EnrichmentMetrics
MaxRecords == 3      \* records in one sendEnrichmentRequests batch
MaxComponents == 2   \* components in one updateMetadataFiles batch
MaxPasses == 2       \* successive updateMetaXml passes over one document

-----------------------------------------------------------------------------
(* Values shared by the operations *)

Names == {"alpha", "beta"}

LWC == "LightningComponentBundle"
Apex == "ApexClass"
NoType == ""          \* componentType: null

\* string | null, a string being a sequence of text pieces
NoMessage == [set |-> FALSE, text |-> <<>>]
Message(text) == [set |-> TRUE, text |-> text]

\* JavaScript values as (type tag, String(value))
Undefined == [t |-> "undefined", s |-> "undefined"]
Bool(s) == [t |-> "boolean", s |-> s]
Num(s) == [t |-> "number", s |-> s]
Str(s) == [t |-> "string", s |-> s]
JsString(v) == v.s

\* EnrichmentResult: the fields the pipeline reads
Result(description, score, type) ==
  [description |-> description, descriptionScore |-> score, metadataType |-> type]

R1 == Result("First description", Num("0.9"), LWC)
R2 == Result("Second description", Num("1"), "Generic")
R3 == Result("Para one\n\n\nPara two", Num("0.25"), LWC)

\* EnrichMetadataResult | null. kind "noResults" is a response object that
\* lacks the results list (a malformed 2xx body).
NullResponse == [kind |-> "null", results |-> <<>>]
OkResponse(results) == [kind |-> "ok", results |-> results]
MalformedResponse == [kind |-> "noResults", results |-> <<>>]

HasResponse(record) == record.response.kind # "null"

\* EnrichmentRequestRecord as createEnrichmentRequestRecords builds it
NewRecord(name, type) ==
  [componentName |-> name, componentType |-> type, requestBody |-> name,
   response |-> NullResponse, message |-> NoMessage]

Range(s) == {s[i] : i \in DOMAIN s}

SeqsUpTo(S, n) == UNION {[1..k -> S] : k \in 0..n}

-----------------------------------------------------------------------------
(* EnrichmentMetrics *)

EmptyBucket == [count |-> 0, components |-> <<>>]

NewEnrichmentMetrics ==
  [success |-> EmptyBucket, fail |-> EmptyBucket, skipped |-> EmptyBucket, total |-> 0]

Push(bucket, component) ==
  [count |-> bucket.count + 1, components |-> Append(bucket.components, component)]

addSuccessComponent(m, component) ==
  [m EXCEPT !.success = Push(@, component), !.total = @ + 1]

AddFailNoTotal(m, component) ==
  [m EXCEPT !.fail = Push(@, component)]

addFailComponent(m, component) ==
  [m EXCEPT !.fail = Push(@, component), !.total = @ + 1]

addSkippedComponent(m, component) ==
  [m EXCEPT !.skipped = Push(@, component), !.total = @ + 1]

\* lines 60-71: the ComponentEnrichmentStatus of one record
StatusOf(record) ==
  [type |-> IF record.componentType # NoType THEN record.componentType
            ELSE IF record.response.kind = "ok" /\ Len(record.response.results) > 0
                 THEN record.response.results[1].metadataType
                 ELSE "",
   componentName |-> record.componentName,
   message |-> IF record.message.set THEN record.message.text
               ELSE IF HasResponse(record) THEN <<>>
               ELSE <<"Enrichment request failed">>]

AddRecordToBoth(m, record) ==
  addFailComponent(addSuccessComponent(m, StatusOf(record)), StatusOf(record))

AddRecordByMessage(m, record) ==
  IF ~record.message.set THEN addSuccessComponent(m, StatusOf(record))
  ELSE addFailComponent(m, StatusOf(record))

AddRecordUnlessMessage(m, record) ==
  IF HasResponse(record) /\ ~record.message.set
  THEN addSuccessComponent(m, StatusOf(record))
  ELSE addFailComponent(m, StatusOf(record))

\* lines 73-77: one iteration of the loop over the records
AddRecord(m, record) ==
  IF HasResponse(record) THEN addSuccessComponent(m, StatusOf(record))
  ELSE addFailComponent(m, StatusOf(record))

RECURSIVE AddRecords(_, _)
AddRecords(m, recs) ==
  IF recs = <<>> THEN m ELSE AddRecords(AddRecord(m, Head(recs)), Tail(recs))

RECURSIVE AddSkipped(_, _)
AddSkipped(m, skips) ==
  IF skips = <<>> THEN m ELSE AddSkipped(addSkippedComponent(m, Head(skips)), Tail(skips))

createEnrichmentMetrics(recs, skippedComponents) ==
  AddSkipped(AddRecords(NewEnrichmentMetrics, recs), skippedComponents)

\* inputs of the metrics specification
StatusSamples ==
  {[type |-> LWC, componentName |-> n, message |-> <<>>] : n \in Names}

SkipSamples ==
  {[type |-> Apex, componentName |-> "alpha",
    message |-> <<"Only Lightning Web Components are currently supported for enrichment">>],
   [type |-> LWC, componentName |-> "beta", message |-> <<"Not found in source project">>]}

RecordSamples ==
  {[NewRecord("alpha", LWC) EXCEPT !.response = OkResponse(<<R1>>)],
   [NewRecord("beta", NoType) EXCEPT !.response = OkResponse(<<R2, R1>>)],
   NewRecord("beta", LWC),
   [NewRecord("alpha", LWC) EXCEPT !.message = Message(<<"boom">>)]}

Calls(m) == Len(m.success.components) + Len(m.fail.components) + Len(m.skipped.components)

AddSuccessCall ==
  /\ pc = "metrics" /\ Calls(metrics) < MaxCalls
  /\ \E c \in StatusSamples : metrics' = addSuccessComponent(metrics, c)
  /\ UNCHANGED <<pc, enrichmentResults, dispatchVars, mergeVars, xmlVars, commandVars>>

AddFailCall ==
  /\ pc = "metrics" /\ Calls(metrics) < MaxCalls
  /\ \E c \in StatusSamples : metrics' = addFailComponent(metrics, c)
  /\ UNCHANGED <<pc, enrichmentResults, dispatchVars, mergeVars, xmlVars, commandVars>>

AddSkippedCall ==
  /\ pc = "metrics" /\ Calls(metrics) < MaxCalls
  /\ \E c \in SkipSamples : metrics' = addSkippedComponent(metrics, c)
  /\ UNCHANGED <<pc, enrichmentResults, dispatchVars, mergeVars, xmlVars, commandVars>>

\* createEnrichmentMetrics on a fresh object, for any records and skip list
CreateMetricsCall ==
  /\ pc = "metrics" /\ metrics = NewEnrichmentMetrics
  /\ \E recs \in SeqsUpTo(RecordSamples, MaxCalls - 1), skips \in SeqsUpTo(SkipSamples, 1) :
       /\ metrics' = createEnrichmentMetrics(recs, skips)
       /\ enrichmentResults' = recs
       /\ componentsToSkip' = skips
  /\ pc' = "reported"
  /\ UNCHANGED <<dispatchVars, mergeVars, xmlVars, metadataEntries, project, componentsToProcess>>

CommandIdle ==
  metadataEntries = <<>> /\ project = <<>> /\ componentsToSkip = <<>> /\ componentsToProcess = <<>>

Idle ==
  /\ records = <<>> /\ sent = <<>> /\ pending = {} /\ promises = <<>> /\ order = <<>> /\ remote = <<>>
  /\ enrichmentResults = <<>>
  /\ sourceComponents = <<>> /\ files = <<>> /\ files0 = <<>> /\ writes = <<>>
  /\ fileContents = <<>> /\ cursor = 0
  /\ xmlArg = R1 /\ xmlOuts = <<>>
  /\ metrics = NewEnrichmentMetrics
  /\ CommandIdle

InitMetrics == pc = "metrics" /\ Idle

NextMetrics == AddSuccessCall \/ AddFailCall \/ AddSkippedCall \/ CreateMetricsCall

SpecMetrics == InitMetrics /\ [][NextMetrics]_vars

\* C1: at every moment of an EnrichmentMetrics object's life, and so for the result
\* of createEnrichmentMetrics on any records and skip list, total is the sum of the
\* three bucket counts.
C1_TotalIsSumOfCounts ==
  metrics.total = metrics.success.count + metrics.fail.count + metrics.skipped.count

C1_Witness ==
  /\ pc = "reported"
  /\ metrics.success.count > 0 /\ metrics.fail.count > 0 /\ metrics.skipped.count > 0

\* the records of the list with, and without, a response, in the order of the list
WithResponse(recs) == SelectSeq(recs, LAMBDA r : r.response.kind # "null")
WithoutResponse(recs) == SelectSeq(recs, LAMBDA r : r.response.kind = "null")

-----------------------------------------------------------------------------
(* EnrichmentHandler.sendEnrichmentRequests *)

\* what connection.requestPost can produce for one request: a rejection (network
\* error, non-2xx) or a parsed 2xx body
Rejection(error) == [ok |-> FALSE, body |-> NullResponse, error |-> error]
Resolution(body) == [ok |-> TRUE, body |-> body, error |-> ""]
NotYet == [ok |-> FALSE, body |-> NullResponse, error |-> "not settled"]

Bodies == {OkResponse(<<>>), OkResponse(<<R1>>), OkResponse(<<R2, R1>>), MalformedResponse}

RemoteOutcomes == {Rejection("ECONNRESET")} \cup {Resolution(b) : b \in Bodies}

Unsettled(record) == [status |-> "pending", value |-> record, reason |-> <<>>]

SendWithoutName(record, outcome) ==
  IF outcome.ok
  THEN [status |-> "fulfilled", value |-> [record EXCEPT !.response = outcome.body],
        reason |-> <<>>]
  ELSE [status |-> "rejected", value |-> record, reason |-> <<outcome.error>>]

\* the promise sendEnrichmentRequest returns, once requestPost has settled
sendEnrichmentRequest(record, outcome) ==
  IF outcome.ok
  THEN [status |-> "fulfilled", value |-> [record EXCEPT !.response = outcome.body],
        reason |-> <<>>]
  ELSE [status |-> "rejected", value |-> record,
        reason |-> <<"Error sending request for component ", record.componentName,
                     ": ", outcome.error>>]

\* lines 207-219: the callback mapped over the settled results
SettledRecord(result, record) ==
  IF result.status = "fulfilled" THEN result.value
  ELSE [record EXCEPT !.response = NullResponse, !.message = Message(result.reason)]

CollectInCompletionOrder(recs, results) ==
  [k \in 1..Len(order) |-> SettledRecord(results[order[k]], recs[order[k]])]

CollectFailFast(recs, results) ==
  [i \in 1..Len(recs) |->
     IF \E j \in 1..Len(recs) : results[j].status = "rejected"
     THEN [recs[i] EXCEPT !.message = Message(results[i].reason)]
     ELSE results[i].value]

CollectSettled(recs, results) ==
  [i \in 1..Len(recs) |-> SettledRecord(results[i], recs[i])]

RetryOnFailure(i, outcome) ==
  IF ~outcome.ok /\ sent[i] < 2
  THEN [pending |-> pending, sent |-> [sent EXCEPT ![i] = @ + 1], promises |-> promises]
  ELSE [pending |-> pending \ {i}, sent |-> sent,
        promises |-> [promises EXCEPT ![i] = sendEnrichmentRequest(records[i], outcome)]]

AbortOnFailure(i, outcome) ==
  [pending |-> IF outcome.ok THEN pending \ {i} ELSE {}, sent |-> sent,
   promises |-> [promises EXCEPT ![i] = sendEnrichmentRequest(records[i], outcome)]]

\* lines 176-190: what the settling of request i does to the batch
OnSettled(i, outcome) ==
  [pending |-> pending \ {i}, sent |-> sent,
   promises |-> [promises EXCEPT ![i] = sendEnrichmentRequest(records[i], outcome)]]

\* line 203: records.map(...) calls requestPost once per record, before any settles
IssueRequests ==
  /\ pc = "send"
  /\ sent' = [i \in 1..Len(records) |-> sent[i] + 1]
  /\ pending' = 1..Len(records)
  /\ pc' = "awaiting"
  /\ UNCHANGED <<records, promises, order, remote, enrichmentResults, metrics, mergeVars, xmlVars, commandVars>>

\* one in-flight request settles; the others stay in flight
Settle(i) ==
  /\ pc = "awaiting" /\ i \in pending
  /\ \E outcome \in RemoteOutcomes :
       /\ pending' = OnSettled(i, outcome).pending
       /\ sent' = OnSettled(i, outcome).sent
       /\ promises' = OnSettled(i, outcome).promises
       /\ remote' = [remote EXCEPT ![i] = outcome]
  /\ order' = Append(order, i)
  /\ UNCHANGED <<pc, records, enrichmentResults, metrics, mergeVars, xmlVars, commandVars>>

\* lines 205-219: Promise.allSettled resolves once nothing is in flight
Collect ==
  /\ pc = "awaiting" /\ pending = {}
  /\ enrichmentResults' = CollectSettled(records, promises)
  /\ pc' = "returned"
  /\ UNCHANGED <<dispatchVars, metrics, mergeVars, xmlVars, commandVars>>

InitDispatch ==
  /\ pc = "send"
  /\ records \in SeqsUpTo({NewRecord(n, LWC) : n \in Names}, MaxRecords)
  /\ sent = [i \in 1..Len(records) |-> 0]
  /\ pending = {}
  /\ promises = [i \in 1..Len(records) |-> Unsettled(records[i])]
  /\ remote = [i \in 1..Len(records) |-> NotYet]
  /\ order = <<>>
  /\ enrichmentResults = <<>>
  /\ metrics = NewEnrichmentMetrics
  /\ sourceComponents = <<>> /\ files = <<>> /\ files0 = <<>> /\ writes = <<>>
  /\ fileContents = <<>> /\ cursor = 0
  /\ xmlArg = R1 /\ xmlOuts = <<>>
  /\ CommandIdle

NextDispatch == IssueRequests \/ (\E i \in DOMAIN records : Settle(i)) \/ Collect

SpecDispatch == InitDispatch /\ [][NextDispatch]_vars

Rejected == {i \in DOMAIN records : i \notin pending /\ ~remote[i].ok /\ remote[i] # NotYet}
Fulfilled == {i \in DOMAIN records : remote[i].ok}

\* C2: when sendEnrichmentRequests has returned and exactly one remote call was
\* rejected, exactly N-1 returned records have a response, and every fulfilled
\* request's record carries the very body the remote returned for it.
C2_OneFailureLeavesOthers ==
  (pc = "returned" /\ Cardinality(Rejected) = 1) =>
     /\ Cardinality({i \in DOMAIN enrichmentResults : HasResponse(enrichmentResults[i])})
          = Len(records) - 1
     /\ \A i \in Fulfilled : enrichmentResults[i].response = remote[i].body

C2_Witness ==
  /\ pc = "returned" /\ Len(records) = 3 /\ Cardinality(Rejected) = 1
  /\ order[1] \in Rejected

\* C3: the returned array has the length of the input, and its i-th record has the
\* componentName of the i-th input record, whatever the order of completion.
C3_SameLengthAndOrder ==
  pc = "returned" =>
     /\ Len(enrichmentResults) = Len(records)
     /\ \A i \in DOMAIN records :
          i \in DOMAIN enrichmentResults
          /\ enrichmentResults[i].componentName = records[i].componentName

C3_Witness ==
  /\ pc = "returned" /\ Len(records) = 3
  /\ order = <<3, 1, 2>>
  /\ records[1].componentName # records[3].componentName
  /\ Rejected = {1}

\* C4: every returned record is either a success (the request was fulfilled, the
\* response is present, no message) or a failure (the request was rejected, the
\* response is absent, the message is set and contains the componentName).
C4_SuccessOrNamedFailure ==
  pc = "returned" =>
     \A i \in DOMAIN enrichmentResults :
        LET r == enrichmentResults[i] IN
        \/ /\ i \in Fulfilled /\ HasResponse(r) /\ ~r.message.set
        \/ /\ i \in Rejected /\ ~HasResponse(r) /\ r.message.set
           /\ r.componentName \in Range(r.message.text)

C4_Witness ==
  /\ pc = "returned" /\ Rejected # {} /\ Fulfilled # {}

\* C5: requestPost is called at most once per record, a rejected request is never
\* in flight again and keeps its rejected outcome, and the record returned for it
\* has no response.
C5_NoRetry ==
  /\ [](\A i \in DOMAIN records : sent[i] <= 1)
  /\ [][\A i \in Rejected :
           /\ i \notin pending'
           /\ promises'[i] = promises[i]
           /\ promises[i].status = "rejected"]_vars
  /\ [](pc = "returned" => \A i \in Rejected : ~HasResponse(enrichmentResults[i]))

C5_Witness ==
  /\ pc = "returned" /\ Rejected # {} /\ \A i \in DOMAIN records : sent[i] = 1

-----------------------------------------------------------------------------
(* FileProcessor.updateMetaXml *)

(* The text of a *.js-meta.xml document, as far as the merge can tell documents   *)
(* apart: whether the parser accepts it, whether it holds an XML comment, the     *)
(* elements under the root other than <ai> (tag and text, in order) and the <ai>  *)
(* element with its child elements (tag and text, in order). Every parseable     *)
(* document has the LightningComponentBundle root and at most one <ai>.           *)
Elem(tag, text) == [tag |-> tag, text |-> text]
NoAi == [present |-> FALSE, fields |-> <<>>]
Ai(fields) == [present |-> TRUE, fields |-> fields]
Doc(comment, siblings, ai) ==
  [wellFormed |-> TRUE, comment |-> comment, siblings |-> siblings, ai |-> ai]
UnparsableDoc == [wellFormed |-> FALSE, comment |-> FALSE, siblings |-> <<>>, ai |-> NoAi]

\* XMLParser trimValues: true
Trim(text) ==
  CASE text = " true " -> "true"
    [] OTHER -> text

\* XMLParser parseTagValue (the default, not switched off): the texts "true" and
\* "false" become booleans and a numeric text becomes a number, whose String() is
\* its shortest form ("59.0" is the number 59); any other text stays a string.
ParseTagValue(text) ==
  CASE text = "true" -> Bool("true")
    [] text = "false" -> Bool("false")
    [] text = "59.0" -> Num("59")
    [] text = "59" -> Num("59")
    [] text \in {"0.5", "0.9", "0.25", "1"} -> Num(text)
    [] OTHER -> Str(text)

\* String.prototype.toLowerCase on the texts of the model
ToLowerCase(text) ==
  CASE text = "TRUE" -> "true"
    [] text = "True" -> "true"
    [] text = "Hello" -> "hello"
    [] OTHER -> text

\* .replace(/\n{3,}/g, '\n\n') on the texts of the model
CollapseBlankRuns(text) ==
  CASE text = "Para one\n\n\nPara two" -> "Para one\n\nPara two"
    [] OTHER -> text

ParseElems(elems) ==
  [i \in DOMAIN elems |-> [tag |-> elems[i].tag, value |-> ParseTagValue(Trim(elems[i].text))]]

\* XMLParser.parse with preserveOrder: false: comments are not kept
ParseXml(doc) ==
  [siblings |-> ParseElems(doc.siblings),
   ai |-> [present |-> doc.ai.present, fields |-> ParseElems(doc.ai.fields)]]

BuildElems(elems) ==
  [i \in DOMAIN elems |-> Elem(elems[i].tag, CollapseBlankRuns(JsString(elems[i].value)))]

\* XMLBuilder.build followed by .trim().replace(/\n{3,}/g, '\n\n')
BuildXml(obj) ==
  [wellFormed |-> TRUE, comment |-> FALSE, siblings |-> BuildElems(obj.siblings),
   ai |-> [present |-> obj.ai.present, fields |-> BuildElems(obj.ai.fields)]]

\* ai?.skipUplift
Property(obj, tag) ==
  IF \E i \in DOMAIN obj.fields : obj.fields[i].tag = tag
  THEN obj.fields[CHOOSE i \in DOMAIN obj.fields :
                    /\ obj.fields[i].tag = tag
                    /\ \A j \in DOMAIN obj.fields : obj.fields[j].tag = tag => i <= j].value
  ELSE Undefined

OptedOutStrictly(skipUpliftValue) == skipUpliftValue = Bool("true")

\* line 144
IsOptedOut(skipUpliftValue) ==
  skipUpliftValue = Bool("true") \/ ToLowerCase(JsString(skipUpliftValue)) = "true"

AccumulateAi(ai, result) ==
  Ai(ai.fields \o <<[tag |-> "skipUplift", value |-> Str("false")],
                    [tag |-> "description", value |-> Str(result.description)],
                    [tag |-> "score", value |-> Str(JsString(result.descriptionScore))]>>)

\* lines 152-156: the object assigned to LightningComponentBundle.ai
NewAi(ai, result) ==
  Ai(<<[tag |-> "skipUplift", value |-> Str("false")],
       [tag |-> "description", value |-> Str(result.description)],
       [tag |-> "score", value |-> Str(JsString(result.descriptionScore))]>>)

Returned(xml) == [threw |-> FALSE, xml |-> xml, error |-> <<>>]
Thrown(xml, error) == [threw |-> TRUE, xml |-> xml, error |-> error]

updateMetaXml(xmlContent, result) ==
  IF ~xmlContent.wellFormed
  THEN Thrown(xmlContent, <<"Failed to parse XML: ", "parser error">>)
  ELSE LET xmlObj == ParseXml(xmlContent) IN
       IF IsOptedOut(Property(xmlObj.ai, "skipUplift"))
       THEN Returned(xmlContent)
       ELSE Returned(BuildXml([xmlObj EXCEPT !.ai = NewAi(xmlObj.ai, result)]))

\* documents and results of the updateMetaXml specification
SiblingSamples ==
  {<<>>,
   <<Elem("apiVersion", "59.0"), Elem("isExposed", "true")>>,
   <<Elem("apiVersion", "59")>>,
   <<Elem("isExposed", "false"), Elem("masterLabel", "Hello")>>}

FlagSamples == {"true", "TRUE", " true ", "True", "false", "Hello"}

AiSamples ==
  {NoAi, Ai(<<>>), Ai(<<Elem("description", "Old description"), Elem("score", "0.5")>>)}
    \cup {Ai(<<Elem("skipUplift", f)>>) : f \in FlagSamples}
    \cup {Ai(<<Elem("skipUplift", f), Elem("description", "Old description"),
               Elem("score", "0.5")>>) : f \in {"TRUE", "false"}}

DocSamples ==
  {UnparsableDoc}
    \cup {Doc(c, s, a) : c \in BOOLEAN, s \in SiblingSamples, a \in AiSamples}

ResultSamples == {R1, R2, R3}

\* the document the next pass reads: what the last pass returned
CurrentXml == files[1]

ApplyUpdateMetaXml ==
  /\ pc = "xml" /\ Len(xmlOuts) < MaxPasses
  /\ LET out == updateMetaXml(CurrentXml, xmlArg) IN
       /\ xmlOuts' = Append(xmlOuts, out)
       /\ files' = IF out.threw THEN files ELSE <<out.xml>>
  /\ UNCHANGED <<pc, metrics, enrichmentResults, dispatchVars, sourceComponents, files0,
                 writes, fileContents, cursor, xmlArg, commandVars>>

InitXml ==
  /\ pc = "xml"
  /\ files0 \in {<<d>> : d \in DocSamples}
  /\ files = files0
  /\ xmlArg \in ResultSamples
  /\ xmlOuts = <<>>
  /\ records = <<>> /\ sent = <<>> /\ pending = {} /\ promises = <<>> /\ order = <<>>
  /\ remote = <<>> /\ enrichmentResults = <<>> /\ metrics = NewEnrichmentMetrics
  /\ sourceComponents = <<>> /\ writes = <<>> /\ fileContents = <<>> /\ cursor = 0
  /\ CommandIdle

NextXml == ApplyUpdateMetaXml

SpecXml == InitXml /\ [][NextXml]_vars

\* the text of the opt-out flag of a document, <<>> when it has none
FlagText(doc) ==
  IF \E i \in DOMAIN doc.ai.fields : doc.ai.fields[i].tag = "skipUplift"
  THEN <<doc.ai.fields[CHOOSE i \in DOMAIN doc.ai.fields :
                         doc.ai.fields[i].tag = "skipUplift"].text>>
  ELSE <<>>

FlagIsTrue(doc) == FlagText(doc) \in {<<"true">>, <<"TRUE">>, <<"True">>, <<" true ">>}
FlagIsFalse(doc) == FlagText(doc) = <<"false">>

ControlOf(result) ==
  Ai(<<Elem("skipUplift", "false"), Elem("description", result.description),
       Elem("score", result.descriptionScore.s)>>)

\* C8: for a parseable document whose opt-out flag is false, every further pass of
\* the merge with the same result leaves the control element the first pass left,
\* with exactly one skipUplift, one description and one score.
C8_MergeIdempotent ==
  (Len(xmlOuts) >= 2 /\ files0[1].wellFormed /\ FlagIsFalse(files0[1])) =>
     \A k \in 2..Len(xmlOuts) :
        /\ ~xmlOuts[k].threw /\ ~xmlOuts[1].threw
        /\ xmlOuts[k].xml.ai = xmlOuts[1].xml.ai
        /\ Len(xmlOuts[k].xml.ai.fields) = 3

C8_Witness ==
  /\ Len(xmlOuts) = 2 /\ FlagIsFalse(files0[1])
  /\ Len(files0[1].ai.fields) = 3
  /\ xmlOuts[1].xml.ai # files0[1].ai
  /\ xmlOuts[2].xml.ai = xmlOuts[1].xml.ai

\* C9: a merge that rewrites the document leaves everything outside the control
\* element as it was: the elements beside <ai> under the root keep their tag and
\* text, and comments stay.
C9_OnlyControlElementChanges ==
  \A k \in DOMAIN xmlOuts :
     ~xmlOuts[k].threw =>
        /\ xmlOuts[k].xml.siblings = files0[1].siblings
        /\ xmlOuts[k].xml.comment = files0[1].comment

-----------------------------------------------------------------------------
(* FileProcessor.updateMetadataFiles *)

JsMetaXml == ".js-meta.xml"
ClsMetaXml == ".cls-meta.xml"
NoXml == ""           \* component.xml: undefined

\* SourceComponent: the fields the merge reads; xml is the suffix of its file name
Component(name, type, xml) == [fullName |-> name, type |-> type, xml |-> xml]

\* a file on disk: its text, and whether this process may read and write it
File(doc, readable, writable) == [doc |-> doc, readable |-> readable, writable |-> writable]

\* line 112
isMetaXmlFile(filePath) == filePath.suffix = JsMetaXml

\* lines 67-81 for the xml file of component i: null when the read fails
readFileMetadata(i) ==
  IF files[i].readable
  THEN <<[componentName |-> sourceComponents[i].fullName,
          filePath |-> [component |-> i, suffix |-> sourceComponents[i].xml],
          fileContents |-> files[i].doc]>>
  ELSE <<>>

\* lines 97-111: the readable xml files, in component order
RECURSIVE ReadFrom(_)
ReadFrom(i) ==
  IF i > Len(sourceComponents) THEN <<>>
  ELSE IF sourceComponents[i].xml = NoXml THEN ReadFrom(i + 1)
  ELSE readFileMetadata(i) \o ReadFrom(i + 1)

readComponentXmlFilesInParallel == ReadFrom(1)

FindLastRecord(recs, name) ==
  IF \E j \in DOMAIN recs : recs[j].componentName = name
  THEN CHOOSE j \in DOMAIN recs :
         /\ recs[j].componentName = name
         /\ \A k \in DOMAIN recs : recs[k].componentName = name => k <= j
  ELSE 0

\* line 44: enrichmentRecords.find(...), 0 when no record has the name
FindRecord(recs, name) ==
  IF \E j \in DOMAIN recs : recs[j].componentName = name
  THEN CHOOSE j \in DOMAIN recs :
         /\ recs[j].componentName = name
         /\ \A k \in DOMAIN recs : recs[k].componentName = name => j <= k
  ELSE 0

LastResult(response) == response.results[Len(response.results)]

\* line 49
FirstResult(response) == response.results[1]

ReadXmlFiles ==
  /\ pc = "merge"
  /\ fileContents' = readComponentXmlFilesInParallel
  /\ cursor' = 1
  /\ pc' = "loop"
  /\ UNCHANGED <<metrics, enrichmentResults, dispatchVars, sourceComponents, files, files0,
                 writes, xmlVars, commandVars>>

\* lines 39-61: one iteration of the loop over the files read
MergeStep ==
  /\ pc = "loop" /\ cursor <= Len(fileContents)
  /\ LET file == fileContents[cursor]
         i == file.filePath.component
         j == FindRecord(enrichmentResults, file.componentName)
     IN
       IF ~isMetaXmlFile(file.filePath) \/ j = 0 \/ ~HasResponse(enrichmentResults[j])
       THEN /\ cursor' = cursor + 1
            /\ UNCHANGED <<pc, enrichmentResults, files, writes>>
       ELSE IF enrichmentResults[j].response.kind = "noResults"
       THEN \* response.results is undefined: results[0] throws outside the try block
            /\ pc' = "threw"
            /\ UNCHANGED <<cursor, enrichmentResults, files, writes>>
       ELSE IF enrichmentResults[j].response.results = <<>>
       THEN /\ cursor' = cursor + 1
            /\ UNCHANGED <<pc, enrichmentResults, files, writes>>
       ELSE LET out == updateMetaXml(file.fileContents,
                                     FirstResult(enrichmentResults[j].response)) IN
            /\ cursor' = cursor + 1
            /\ pc' = pc
            /\ IF out.threw
               THEN /\ enrichmentResults' =
                         [enrichmentResults EXCEPT ![j].message = Message(out.error)]
                    /\ UNCHANGED <<files, writes>>
               ELSE IF files[i].writable
               THEN /\ files' = [files EXCEPT ![i].doc = out.xml]
                    /\ writes' = [writes EXCEPT ![i] = @ + 1]
                    /\ UNCHANGED enrichmentResults
               ELSE /\ enrichmentResults' =
                         [enrichmentResults EXCEPT
                            ![j].message = Message(<<"EACCES: permission denied">>)]
                    /\ UNCHANGED <<files, writes>>
  /\ UNCHANGED <<metrics, dispatchVars, sourceComponents, files0, fileContents, xmlVars, commandVars>>

\* line 64
MergeReturn ==
  /\ pc = "loop" /\ cursor > Len(fileContents)
  /\ pc' = "merged"
  /\ UNCHANGED <<metrics, enrichmentResults, dispatchVars, mergeVars, xmlVars, commandVars>>

(* Inputs: per component its name, its xml file and the outcome of its request.    *)
(* A component without an xml file has nothing on disk to read or write.          *)
OptIn == Doc(FALSE, <<Elem("apiVersion", "59")>>,
             Ai(<<Elem("skipUplift", "false"), Elem("description", "Old description")>>))
OptOut(flag) == Doc(FALSE, <<Elem("apiVersion", "59")>>,
                    Ai(<<Elem("skipUplift", flag), Elem("description", "Old description")>>))
Plain == Doc(FALSE, <<Elem("apiVersion", "59")>>, NoAi)

FileSamples ==
  {[xml |-> JsMetaXml, type |-> LWC, file |-> File(OptIn, TRUE, TRUE)],
   [xml |-> JsMetaXml, type |-> LWC, file |-> File(OptIn, TRUE, FALSE)],
   [xml |-> JsMetaXml, type |-> LWC, file |-> File(OptIn, FALSE, TRUE)],
   [xml |-> JsMetaXml, type |-> LWC, file |-> File(OptOut("true"), TRUE, TRUE)],
   [xml |-> JsMetaXml, type |-> LWC, file |-> File(OptOut("TRUE"), TRUE, TRUE)],
   [xml |-> JsMetaXml, type |-> LWC, file |-> File(UnparsableDoc, TRUE, TRUE)],
   [xml |-> NoXml, type |-> LWC, file |-> File(UnparsableDoc, FALSE, FALSE)],
   [xml |-> ClsMetaXml, type |-> Apex, file |-> File(Plain, TRUE, TRUE)]}

\* the record enrich returns for a component: none when it had no readable content
RequestSamples ==
  {"none", "rejected", "empty", "one", "two", "malformed"}

RecordFor(name, type, request) ==
  CASE request = "rejected" ->
         <<SettledRecord(sendEnrichmentRequest(NewRecord(name, type), Rejection("ECONNRESET")),
                         NewRecord(name, type))>>
    [] request = "empty" -> <<[NewRecord(name, type) EXCEPT !.response = OkResponse(<<>>)]>>
    [] request = "one" -> <<[NewRecord(name, type) EXCEPT !.response = OkResponse(<<R1>>)]>>
    [] request = "two" -> <<[NewRecord(name, type) EXCEPT !.response = OkResponse(<<R3, R2>>)]>>
    [] request = "malformed" -> <<[NewRecord(name, type) EXCEPT !.response = MalformedResponse]>>
    [] OTHER -> <<>>

RECURSIVE RecordsFor(_)
RecordsFor(cfg) ==
  IF cfg = <<>> THEN <<>>
  ELSE RecordFor(Head(cfg).name, Head(cfg).sample.type, Head(cfg).request)
         \o RecordsFor(Tail(cfg))

\* the six request outcomes are crossed with the *.js-meta.xml files; the components
\* whose file the loop passes over come with three of them
ComponentInputs ==
  {c \in [name : Names, sample : FileSamples, request : RequestSamples] :
     c.sample.xml # JsMetaXml => c.request \in {"none", "rejected", "one"}}

MergeInputs == UNION {[1..m -> ComponentInputs] : m \in 1..MaxComponents}

InitMerge ==
  /\ pc = "merge"
  /\ \E cfg \in MergeInputs :
       /\ cfg[1].name = "alpha"
       /\ sourceComponents =
            [i \in DOMAIN cfg |-> Component(cfg[i].name, cfg[i].sample.type, cfg[i].sample.xml)]
       /\ files = [i \in DOMAIN cfg |-> cfg[i].sample.file]
       /\ enrichmentResults = RecordsFor(cfg)
  /\ files0 = files
  /\ writes = [i \in DOMAIN files |-> 0]
  /\ fileContents = <<>> /\ cursor = 0
  /\ records = enrichmentResults
  /\ sent = <<>> /\ pending = {} /\ promises = <<>> /\ order = <<>>
  /\ remote = <<>> /\ metrics = NewEnrichmentMetrics
  /\ xmlArg = R1 /\ xmlOuts = <<>>
  /\ CommandIdle

NextMerge == ReadXmlFiles \/ MergeStep \/ MergeReturn

SpecMerge == InitMerge /\ [][NextMerge]_vars

\* position of component i's file in the loop, 0 when it was not read
Position(i) ==
  IF \E k \in DOMAIN fileContents : fileContents[k].filePath.component = i
  THEN CHOOSE k \in DOMAIN fileContents : fileContents[k].filePath.component = i
  ELSE 0

\* the loop has finished the iteration for component i's file
Handled(i) == pc \in {"loop", "merged", "threw"} /\ Position(i) # 0 /\ Position(i) < cursor

\* the record the merge uses for component i has a response with a result
HasResult(i) ==
  LET j == FindRecord(enrichmentResults, sourceComponents[i].fullName) IN
  /\ j # 0
  /\ enrichmentResults[j].response.kind = "ok"
  /\ enrichmentResults[j].response.results # <<>>

ResultsOf(i) ==
  enrichmentResults[FindRecord(enrichmentResults, sourceComponents[i].fullName)].response.results

\* C6: a support file whose opt-out flag is true (any letter case) has, at every
\* moment of the merge step, the content it had before it, whatever its record holds.
C6_OptOutRespected ==
  \A i \in DOMAIN files : FlagIsTrue(files0[i].doc) => files[i].doc = files0[i].doc

C6_Witness ==
  /\ pc = "merged"
  /\ \E i \in DOMAIN files :
       /\ FlagText(files0[i].doc) = <<"TRUE">>
       /\ HasResult(i)
       /\ writes[i] = 1

\* C7 as claimed: after updateMetadataFiles, every component that has a support
\* file whose opt-out flag is not true, and whose record has a response with a
\* result, has the control element {false, description, String(score)} of the
\* first result in its file.
C7_AsClaimed ==
  pc = "merged" =>
     \A i \in DOMAIN sourceComponents :
        (sourceComponents[i].xml # NoXml /\ ~FlagIsTrue(files0[i].doc) /\ HasResult(i))
          => files[i].doc.ai = ControlOf(ResultsOf(i)[1])

ControlOfNormalised(result) ==
  Ai(<<Elem("skipUplift", "false"),
       Elem("description", CollapseBlankRuns(result.description)),
       Elem("score", result.descriptionScore.s)>>)

\* C7 amended: once the loop has handled the *.js-meta.xml file of a component, if
\* the file was readable, parseable and writable with an opt-out flag that is not
\* true, and the first record of that name has a response with a result, the
\* control element of the file is exactly {false, the first result's description
\* with runs of blank lines collapsed, String(first result's score)}.
C7_ControlElementWritten ==
  \A i \in DOMAIN sourceComponents :
     ( /\ Handled(i)
       /\ sourceComponents[i].xml = JsMetaXml
       /\ files0[i].readable /\ files0[i].writable /\ files0[i].doc.wellFormed
       /\ ~FlagIsTrue(files0[i].doc)
       /\ HasResult(i) )
       => files[i].doc.ai = ControlOfNormalised(ResultsOf(i)[1])

C7_Witness ==
  /\ pc = "merged"
  /\ \E i \in DOMAIN sourceComponents :
       /\ sourceComponents[i].xml = JsMetaXml /\ ~FlagIsTrue(files0[i].doc)
       /\ HasResult(i) /\ Len(ResultsOf(i)) = 2
       /\ writes[i] = 1
       /\ files[i].doc.ai # files0[i].doc.ai

\* the merge of component i's file fails: the document does not parse or the file
\* cannot be written
MergeFails(i) ==
  /\ sourceComponents[i].xml = JsMetaXml /\ files0[i].readable /\ HasResult(i)
  /\ \/ ~files0[i].doc.wellFormed
     \/ ~files0[i].writable /\ ~FlagIsTrue(files0[i].doc)

\* C10: no failure escapes the merge step, and when it has returned every component
\* whose merge failed has the error in its record's message while every other
\* component that could be merged has been.
C10_FailuresContained ==
  /\ pc # "threw"
  /\ pc = "merged" =>
       \A i \in DOMAIN sourceComponents :
          /\ MergeFails(i) =>
               enrichmentResults[FindRecord(enrichmentResults,
                                            sourceComponents[i].fullName)].message.set
          /\ ( /\ sourceComponents[i].xml = JsMetaXml
               /\ files0[i].readable /\ files0[i].writable /\ files0[i].doc.wellFormed
               /\ ~FlagIsTrue(files0[i].doc) /\ HasResult(i) )
               => writes[i] = 1

\* no record carries the name of component i
NoRecordNamed(i) ==
  \A j \in DOMAIN enrichmentResults :
     enrichmentResults[j].componentName # sourceComponents[i].fullName

\* the first record that carries the name of component i has no response
RecordLacksResponse(i) ==
  \E j \in DOMAIN enrichmentResults :
     /\ enrichmentResults[j].componentName = sourceComponents[i].fullName
     /\ enrichmentResults[j].response.kind = "null"
     /\ \A k \in 1..(j - 1) :
          enrichmentResults[k].componentName # sourceComponents[i].fullName

\* C11: throughout updateMetadataFiles, a component that has no record of its name,
\* or whose record (the first of its name) has no response, has an xml file that
\* was never written and holds what it held before, and every record that was
\* passed in without a response is as it was passed in.
C11_NoResponseNoWrite ==
  /\ \A i \in DOMAIN sourceComponents :
        (NoRecordNamed(i) \/ RecordLacksResponse(i))
          => writes[i] = 0 /\ files[i] = files0[i]
  /\ Len(enrichmentResults) = Len(records)
  /\ \A j \in DOMAIN records :
        records[j].response.kind = "null" => enrichmentResults[j] = records[j]

C11_Witness ==
  /\ pc = "merged"
  /\ \E i, k \in DOMAIN sourceComponents :
       /\ sourceComponents[i].xml = JsMetaXml /\ files0[i].readable /\ files0[i].writable
       /\ ~FlagIsTrue(files0[i].doc)
       /\ RecordLacksResponse(i) /\ Handled(i)
       /\ enrichmentResults[FindRecord(enrichmentResults,
                                       sourceComponents[i].fullName)].message.set
       /\ writes[k] = 1

-----------------------------------------------------------------------------
(* ComponentProcessor.getComponentsToSkip (utils/componentProcessor.ts) *)

MaxEntries == 2      \* values of the --metadata flag in one call
MaxSource == 2       \* source components in one getComponentsToSkip call

\* A raw entry is the sequence of its pieces: a kind token, the separator, a name,
\* blanks around them.
Colon == ":"
Blank == " "

\* the position of the first separator of the entry, 0 when it has none
FirstColon(rawEntry) ==
  IF \E k \in DOMAIN rawEntry : rawEntry[k] = Colon
  THEN CHOOSE k \in DOMAIN rawEntry :
         rawEntry[k] = Colon /\ \A h \in 1..(k - 1) : rawEntry[h] # Colon
  ELSE 0

\* String.prototype.trim on a sequence of pieces
RECURSIVE TrimStart(_)
TrimStart(pieces) ==
  IF pieces # <<>> /\ Head(pieces) = Blank THEN TrimStart(Tail(pieces)) ELSE pieces

RECURSIVE TrimEnd(_)
TrimEnd(pieces) ==
  IF pieces # <<>> /\ pieces[Len(pieces)] = Blank
  THEN TrimEnd(SubSeq(pieces, 1, Len(pieces) - 1))
  ELSE pieces

TrimPieces(pieces) == TrimEnd(TrimStart(pieces))

\* the string a trimmed sequence of pieces spells: the entries of the model have at
\* most one piece on each side of the separator
Spelled(pieces) == IF pieces = <<>> THEN "" ELSE pieces[1]

\* line 135: const [typeName, ...nameParts] = rawEntry.split(':')
typeName(rawEntry) ==
  IF FirstColon(rawEntry) = 0 THEN rawEntry
  ELSE SubSeq(rawEntry, 1, FirstColon(rawEntry) - 1)

\* line 137: nameParts.join(':').trim() is the text after the first separator,
\* '*' when the entry has no separator
metadataName(rawEntry) ==
  IF FirstColon(rawEntry) = 0 THEN "*"
  ELSE Spelled(TrimPieces(SubSeq(rawEntry, FirstColon(rawEntry) + 1, Len(rawEntry))))

\* line 136: RegistryAccess.getTypeByName looks the kind up without regard to letter
\* case and throws for a kind it does not know
KnownTypes ==
  [lightningcomponentbundle |-> LWC, apexclass |-> Apex]

LowerCaseKind(text) ==
  CASE text = "LightningComponentBundle" -> "lightningcomponentbundle"
    [] text = "ApexClass" -> "apexclass"
    [] OTHER -> text

getTypeByName(name) ==
  IF LowerCaseKind(name) \in DOMAIN KnownTypes
  THEN [threw |-> FALSE, name |-> KnownTypes[LowerCaseKind(name)]]
  ELSE [threw |-> TRUE, name |-> ""]

\* componentName: string | undefined, as a sequence of at most one string
NoName == <<>>
Named(name) == <<name>>

\* String.prototype.includes('*') on the names of the model
IncludesStar(name) == name \in {"*", "al*"}

\* lines 131-145: MetadataTypeAndMetadataName | null, as a sequence of at most one
parseMetadataEntry(rawEntry) ==
  LET type == getTypeByName(Spelled(TrimPieces(typeName(rawEntry)))) IN
  IF type.threw THEN <<>>
  ELSE <<[type |-> type.name,
          componentName |-> IF metadataName(rawEntry) = "*" THEN NoName
                            ELSE Named(metadataName(rawEntry))]>>

\* a string | undefined is truthy when it is a non-empty string
Truthy(componentName) == componentName # NoName /\ componentName[1] # ""

AddParsedDiscardingAll(requestedComponents, rawEntry) ==
  LET parsed == parseMetadataEntry(rawEntry) IN
  IF parsed = <<>> THEN requestedComponents
  ELSE IF /\ Truthy(parsed[1].componentName)
          /\ (IncludesStar(parsed[1].componentName[1]) \/ parsed[1].componentName[1] = "all")
  THEN requestedComponents
  ELSE Append(requestedComponents, parsed[1])

AddParsedWithWildcards(requestedComponents, rawEntry) ==
  LET parsed == parseMetadataEntry(rawEntry) IN
  IF parsed = <<>> THEN requestedComponents
  ELSE Append(requestedComponents, parsed[1])

\* lines 88-100: one iteration of the loop over the entries. The set is a Set of
\* objects: every parsed entry is a new object, so add() never finds it present and
\* the set lists one object per entry that is kept, in order.
AddParsed(requestedComponents, rawEntry) ==
  LET parsed == parseMetadataEntry(rawEntry) IN
  IF parsed = <<>> THEN requestedComponents
  ELSE IF Truthy(parsed[1].componentName) /\ IncludesStar(parsed[1].componentName[1])
  THEN requestedComponents
  ELSE Append(requestedComponents, parsed[1])

RECURSIVE ParseFrom(_, _)
ParseFrom(requestedComponents, entries) ==
  IF entries = <<>> THEN requestedComponents
  ELSE ParseFrom(AddParsed(requestedComponents, Head(entries)), Tail(entries))

\* lines 82-103
parseRequestedComponents(entries) == ParseFrom(<<>>, entries)

\* lines 105-116
getExistingSourceComponentNames(components) ==
  {components[i].fullName : i \in {k \in DOMAIN components : components[k].fullName # ""}}

\* lines 118-129 with Map.get: the last component that has the name, as a sequence
\* of at most one
createSourceComponentMap(components, name) ==
  LET at == {k \in DOMAIN components : components[k].fullName = name /\ name # ""} IN
  IF at = {} THEN <<>>
  ELSE <<components[CHOOSE k \in at : \A h \in at : h <= k]>>

SkipRecord(requestedComponent, message) ==
  [type |-> requestedComponent.type,
   componentName |-> requestedComponent.componentName[1],
   message |-> <<message>>]

NotFoundMessage == "Not found in source project"
OnlyLwcMessage == "Only Lightning Web Components are currently supported for enrichment"
NoXmlMessage == "Lightning Web Component configuration file does not exist (*.js-meta.xml)"

RECURSIVE ReportFirstMissing(_, _)
ReportFirstMissing(components, requestedComponents) ==
  IF requestedComponents = <<>> THEN <<>>
  ELSE IF /\ Truthy(Head(requestedComponents).componentName)
          /\ Head(requestedComponents).componentName[1]
               \notin getExistingSourceComponentNames(components)
  THEN <<SkipRecord(Head(requestedComponents), NotFoundMessage)>>
  ELSE ReportFirstMissing(components, Tail(requestedComponents))

\* lines 32-48
RECURSIVE diffRequestedComponents(_, _)
diffRequestedComponents(components, requestedComponents) ==
  IF requestedComponents = <<>> THEN <<>>
  ELSE (IF /\ Truthy(Head(requestedComponents).componentName)
           /\ Head(requestedComponents).componentName[1]
                \notin getExistingSourceComponentNames(components)
        THEN <<SkipRecord(Head(requestedComponents), NotFoundMessage)>>
        ELSE <<>>)
       \o diffRequestedComponents(components, Tail(requestedComponents))

\* lines 57-76: the records one requested component adds to filteredComponents
FilterOne(components, requestedComponent) ==
  LET sourceComponent ==
        IF Truthy(requestedComponent.componentName)
        THEN createSourceComponentMap(components, requestedComponent.componentName[1])
        ELSE <<>>
  IN
    (IF sourceComponent # <<>> /\ sourceComponent[1].type # LWC
     THEN <<SkipRecord(requestedComponent, OnlyLwcMessage)>> ELSE <<>>)
    \o
    (IF sourceComponent # <<>> /\ sourceComponent[1].type = LWC /\ sourceComponent[1].xml = NoXml
     THEN <<SkipRecord(requestedComponent, NoXmlMessage)>> ELSE <<>>)

\* lines 50-80
RECURSIVE filterComponents(_, _)
filterComponents(components, requestedComponents) ==
  IF requestedComponents = <<>> THEN <<>>
  ELSE FilterOne(components, Head(requestedComponents))
         \o filterComponents(components, Tail(requestedComponents))

\* lines 20-30
getComponentsToSkip(components, entries) ==
  diffRequestedComponents(components, parseRequestedComponents(entries))
    \o filterComponents(components, parseRequestedComponents(entries))

\* inputs of the classifier: entries with a known and an unknown kind, a kind in
\* another letter case with blanks around the parts, wildcards and an empty name
EntrySamples ==
  {<<LWC, Colon, "alpha">>,
   <<LWC, Colon, "beta">>,
   <<Apex, Colon, "alpha">>,
   <<Blank, "apexclass", Colon, Blank, "beta", Blank>>,
   <<"Bogus", Colon, "alpha">>,
   <<LWC, Colon, "*">>,
   <<LWC, Colon, "al*">>,
   <<LWC>>,
   <<LWC, Colon>>,
   <<LWC, Colon, "all">>}

\* source components: a bundle with and without its *.js-meta.xml file, a class
SourceSamples ==
  {Component(n, LWC, JsMetaXml) : n \in Names}
    \cup {Component(n, LWC, NoXml) : n \in Names}
    \cup {Component(n, Apex, ClsMetaXml) : n \in Names}

\* a project holds one component per kind and name
DistinctByKindAndName(components) ==
  \A i, k \in DOMAIN components :
     (components[i].type = components[k].type /\ components[i].fullName = components[k].fullName)
       => i = k

GetComponentsToSkipCall ==
  /\ pc = "classify"
  /\ componentsToSkip' = getComponentsToSkip(sourceComponents, metadataEntries)
  /\ pc' = "classified"
  /\ UNCHANGED <<metrics, enrichmentResults, dispatchVars, mergeVars, xmlVars,
                 metadataEntries, project, componentsToProcess>>

InitClassify ==
  /\ pc = "classify"
  /\ metadataEntries \in SeqsUpTo(EntrySamples, MaxEntries)
  /\ sourceComponents \in {c \in SeqsUpTo(SourceSamples, MaxSource) : DistinctByKindAndName(c)}
  /\ componentsToSkip = <<>> /\ project = <<>> /\ componentsToProcess = <<>>
  /\ records = <<>> /\ sent = <<>> /\ pending = {} /\ promises = <<>> /\ order = <<>>
  /\ remote = <<>> /\ enrichmentResults = <<>> /\ metrics = NewEnrichmentMetrics
  /\ files = <<>> /\ files0 = <<>> /\ writes = <<>> /\ fileContents = <<>> /\ cursor = 0
  /\ xmlArg = R1 /\ xmlOuts = <<>>

NextClassify == GetComponentsToSkipCall

SpecClassify == InitClassify /\ [][NextClassify]_vars

\* what the claims say of a raw entry
KindIsKnown(rawEntry) == ~getTypeByName(Spelled(TrimPieces(typeName(rawEntry)))).threw
KindOf(rawEntry) == getTypeByName(Spelled(TrimPieces(typeName(rawEntry)))).name
IsWildcard(rawEntry) == IncludesStar(metadataName(rawEntry))
NamesConcrete(rawEntry) == metadataName(rawEntry) # "" /\ ~IsWildcard(rawEntry)
SourceNames == {sourceComponents[i].fullName : i \in DOMAIN sourceComponents}

SkipsOf(name, message) ==
  {k \in DOMAIN componentsToSkip :
     componentsToSkip[k].componentName = name /\ componentsToSkip[k].message = <<message>>}

\* C12 as claimed: every requested identifier with a concrete name that no source
\* component carries has a skip record with the reason 'Not found in source
\* project', whether or not the registry knows its kind.
C12_AsClaimed ==
  pc = "classified" =>
     \A k \in DOMAIN metadataEntries :
        (NamesConcrete(metadataEntries[k]) /\ metadataName(metadataEntries[k]) \notin SourceNames)
          => SkipsOf(metadataName(metadataEntries[k]), NotFoundMessage) # {}

\* C12 amended: every requested identifier whose kind the registry knows and whose
\* name is concrete (not empty, no '*') and carried by no source component has a
\* skip record with the registry's name of its kind, its name and the reason 'Not
\* found in source project'; and every skip record has the kind and name of a
\* requested identifier whose kind the registry knows.
C12_NotFoundForKnownKind ==
  pc = "classified" =>
     /\ \A k \in DOMAIN metadataEntries :
          ( /\ KindIsKnown(metadataEntries[k])
            /\ NamesConcrete(metadataEntries[k])
            /\ metadataName(metadataEntries[k]) \notin SourceNames )
            => \E h \in SkipsOf(metadataName(metadataEntries[k]), NotFoundMessage) :
                  componentsToSkip[h].type = KindOf(metadataEntries[k])
     /\ \A h \in DOMAIN componentsToSkip :
          \E k \in DOMAIN metadataEntries :
             /\ KindIsKnown(metadataEntries[k])
             /\ KindOf(metadataEntries[k]) = componentsToSkip[h].type
             /\ metadataName(metadataEntries[k]) = componentsToSkip[h].componentName

C12_Witness ==
  /\ pc = "classified"
  /\ sourceComponents # <<>>
  /\ \E k, h \in DOMAIN metadataEntries :
       /\ ~KindIsKnown(metadataEntries[k]) /\ KindIsKnown(metadataEntries[h])
       /\ metadataName(metadataEntries[k]) = "alpha" /\ metadataName(metadataEntries[h]) = "alpha"
       /\ "alpha" \notin SourceNames
  /\ Len(componentsToSkip) = 1
  /\ componentsToSkip[1].message = <<NotFoundMessage>>

\* C14 as claimed: every requested identifier (of a kind the registry knows) whose
\* name is that of a source component of kind LightningComponentBundle that has no
\* *.js-meta.xml file has a skip record saying that the configuration file does
\* not exist.
C14_MissingXmlReported ==
  pc = "classified" =>
     \A k \in DOMAIN metadataEntries :
        ( /\ KindIsKnown(metadataEntries[k])
          /\ NamesConcrete(metadataEntries[k])
          /\ \E i \in DOMAIN sourceComponents :
               /\ sourceComponents[i].fullName = metadataName(metadataEntries[k])
               /\ sourceComponents[i].type = LWC
               /\ sourceComponents[i].xml = NoXml )
          => SkipsOf(metadataName(metadataEntries[k]), NoXmlMessage) # {}

\* C17 as claimed: requested identifiers are deduplicated by (kind, name), so no two
\* skip records have the same kind and the same name.
C17_OneSkipPerIdentifier ==
  pc = "classified" =>
     \A h, k \in DOMAIN componentsToSkip :
        ( /\ componentsToSkip[h].type = componentsToSkip[k].type
          /\ componentsToSkip[h].componentName = componentsToSkip[k].componentName )
          => h = k

-----------------------------------------------------------------------------
(* EnrichMetadata.run (commands/enrich/metadata.ts) *)

\* a content file of a component: its extension, and whether it can be read
ContentFile(ext, readable) == [dir |-> "", ext |-> ext, readable |-> readable]

\* a content file in a subdirectory of the component's directory
NestedFile(dir, ext, readable) == [dir |-> dir, ext |-> ext, readable |-> readable]

\* a component of the project: what SourceComponent exposes, the files walkContent
\* lists and the xml file on disk
ProjectComponent(name, type, xml, content, file) ==
  [fullName |-> name, type |-> type, xml |-> xml, content |-> content, file |-> file]

Bundle(name) ==
  ProjectComponent(name, LWC, JsMetaXml,
                   <<ContentFile(".js", TRUE), ContentFile(".html", FALSE)>>,
                   File(OptIn, TRUE, TRUE))
BundleWithoutXml(name) ==
  ProjectComponent(name, LWC, NoXml, <<ContentFile(".js", TRUE)>>,
                   File(UnparsableDoc, FALSE, FALSE))
UnreadableBundle(name) ==
  ProjectComponent(name, LWC, JsMetaXml, <<ContentFile(".js", FALSE)>>,
                   File(OptIn, TRUE, TRUE))
\* a bundle whose js-meta.xml file is read-only: writeFile rejects
UnwritableBundle(name) ==
  ProjectComponent(name, LWC, JsMetaXml, <<ContentFile(".js", TRUE)>>,
                   File(OptIn, TRUE, FALSE))
Class(name) ==
  ProjectComponent(name, Apex, ClsMetaXml, <<ContentFile(".cls", TRUE)>>,
                   File(Plain, TRUE, TRUE))

ProjectSamples ==
  {<<>>,
   <<Bundle("alpha")>>,
   <<Bundle("alpha"), Bundle("beta")>>,
   <<Class("alpha"), Bundle("alpha")>>,
   <<Bundle("alpha"), Class("alpha")>>,
   <<BundleWithoutXml("alpha"), Bundle("beta")>>,
   <<UnreadableBundle("alpha"), Class("beta")>>,
   <<UnwritableBundle("alpha"), Bundle("beta")>>}

\* the name pattern of an entry against a component name: '*' alone, a pattern with
\* '*', or the name itself
NameMatches(pattern, name) ==
  CASE pattern = "*" -> TRUE
    [] pattern = "al*" -> name = "alpha"
    [] OTHER -> pattern = name

\* lines 50-56: ComponentSetBuilder.build resolves the entries against the project
\* directory; the source components are those of the project whose kind and name
\* an entry matches, in the order of the project
EntryMatches(rawEntry, component) ==
  /\ KnownTypes[LowerCaseKind(Spelled(TrimPieces(typeName(rawEntry))))] = component.type
  /\ NameMatches(metadataName(rawEntry), component.fullName)

getSourceComponents(components, entries) ==
  SelectSeq(components, LAMBDA c : \E k \in DOMAIN entries : EntryMatches(entries[k], c))

\* ComponentSetBuilder.build rejects an entry whose kind the registry does not know
BuildThrows(entries) ==
  \E k \in DOMAIN entries :
     LowerCaseKind(Spelled(TrimPieces(typeName(entries[k])))) \notin DOMAIN KnownTypes

ProcessEverySource(components, skips) == components

\* lines 62-65
ToProcess(components, skips) ==
  SelectSeq(components,
            LAMBDA c : /\ c.fullName # ""
                       /\ ~\E k \in DOMAIN skips : skips[k].componentName = c.fullName)

\* the path of a content file: directory inside the component, component name and
\* extension; the text of a file is identified by its path
filePath(component, f) == <<f.dir, component.fullName, f.ext>>

\* node:path basename and extname
basename(path) == <<path[2], path[3]>>
extname(path) == path[3]

\* constants.ts MIME_TYPES and getMimeTypeFromExtension
getMimeTypeFromExtension(path) ==
  CASE extname(path) = ".js" -> "application/javascript"
    [] extname(path) = ".html" -> "text/html"
    [] extname(path) = ".css" -> "text/css"
    [] extname(path) = ".xml" -> "application/xml"
    [] extname(path) = ".svg" -> "image/svg+xml"
    [] OTHER -> "application/octet-stream"

\* FileProcessor.readFileMetadata for a content file of the component
FileReadResult(component, f) ==
  [componentName |-> component.fullName,
   filePath |-> filePath(component, f),
   fileContents |-> filePath(component, f),
   mimeType |-> getMimeTypeFromExtension(filePath(component, f))]

readNothingOnFailure(component) ==
  IF component.fullName = "" \/ \E k \in DOMAIN component.content : ~component.content[k].readable
  THEN <<>>
  ELSE component.content

\* FileProcessor.readComponentFiles: the content files that could be read
readComponentFiles(component) ==
  IF component.fullName = "" THEN <<>>
  ELSE SelectSeq(component.content, LAMBDA f : f.readable)

\* lines 132-139
createContentBundleFile(file) ==
  [filename |-> basename(file.filePath),
   mimeType |-> file.mimeType,
   content |-> file.fileContents,
   encoding |-> "PlainText"]

\* lines 144-156: the files keyed by their basename, a later file replacing an
\* earlier one with the same key
createContentBundle(componentName, results) ==
  [resourceName |-> componentName,
   files |-> [b \in {basename(results[k].filePath) : k \in DOMAIN results} |->
                LET last == CHOOSE k \in DOMAIN results :
                              /\ basename(results[k].filePath) = b
                              /\ \A h \in DOMAIN results :
                                    basename(results[h].filePath) = b => h <= k
                IN createContentBundleFile(results[last])]]

\* lines 161-167
createEnrichmentRequestBody(contentBundle) ==
  [contentBundles |-> <<contentBundle>>, metadataType |-> "Generic", maxTokens |-> 250]

\* lines 102-108: the request body built from the files read for the component
RequestBodyOf(component) ==
  LET read == readComponentFiles(component)
      results == [k \in DOMAIN read |-> FileReadResult(component, read[k])]
  IN createEnrichmentRequestBody(createContentBundle(component.fullName, results))

\* createEnrichmentRequestRecords: one record per component with a file read
RECURSIVE createEnrichmentRequestRecords(_)
createEnrichmentRequestRecords(components) ==
  IF components = <<>> THEN <<>>
  ELSE (IF Head(components).fullName = "" \/ readComponentFiles(Head(components)) = <<>>
        THEN <<>>
        ELSE <<[NewRecord(Head(components).fullName, Head(components).type)
                  EXCEPT !.requestBody = RequestBodyOf(Head(components))]>>)
       \o createEnrichmentRequestRecords(Tail(components))

\* lines 50-56
BuildComponentSet ==
  /\ pc = "run"
  /\ \/ /\ BuildThrows(metadataEntries)
        /\ pc' = "threw"
        /\ UNCHANGED sourceComponents
     \/ /\ ~BuildThrows(metadataEntries)
        /\ sourceComponents' = getSourceComponents(project, metadataEntries)
        /\ pc' = "built"
  /\ UNCHANGED <<metrics, enrichmentResults, dispatchVars, files, files0, writes, fileContents,
                 cursor, xmlVars, commandVars>>

\* lines 57-65
Classify ==
  /\ pc = "built"
  /\ componentsToSkip' = getComponentsToSkip(sourceComponents, metadataEntries)
  /\ componentsToProcess' =
       ToProcess(sourceComponents, getComponentsToSkip(sourceComponents, metadataEntries))
  /\ pc' = "enrich"
  /\ UNCHANGED <<metrics, enrichmentResults, dispatchVars, mergeVars, xmlVars,
                 metadataEntries, project>>

\* line 70, EnrichmentHandler.enrich up to the call of sendEnrichmentRequests
CreateRecords ==
  /\ pc = "enrich"
  /\ records' = createEnrichmentRequestRecords(componentsToProcess)
  /\ sent' = [i \in DOMAIN records' |-> 0]
  /\ promises' = [i \in DOMAIN records' |-> Unsettled(records'[i])]
  /\ remote' = [i \in DOMAIN records' |-> NotYet]
  /\ pc' = "send"
  /\ UNCHANGED <<metrics, enrichmentResults, pending, order, mergeVars, xmlVars, commandVars>>

\* line 74: updateMetadataFiles is called with the components to process
StartMerge ==
  /\ pc = "returned"
  /\ sourceComponents' = componentsToProcess
  /\ files' = [i \in DOMAIN componentsToProcess |-> componentsToProcess[i].file]
  /\ files0' = files'
  /\ writes' = [i \in DOMAIN componentsToProcess |-> 0]
  /\ pc' = "merge"
  /\ UNCHANGED <<metrics, enrichmentResults, dispatchVars, fileContents, cursor, xmlVars,
                 commandVars>>

ReportBeforeMerge ==
  /\ pc = "returned"
  /\ metrics' = createEnrichmentMetrics(enrichmentResults, componentsToSkip)
  /\ pc' = "done"
  /\ UNCHANGED <<enrichmentResults, dispatchVars, mergeVars, xmlVars, commandVars>>

\* lines 77-80
Report ==
  /\ pc = "merged"
  /\ metrics' = createEnrichmentMetrics(enrichmentResults, componentsToSkip)
  /\ pc' = "done"
  /\ UNCHANGED <<enrichmentResults, dispatchVars, mergeVars, xmlVars, commandVars>>

InitRun ==
  /\ pc = "run"
  /\ metadataEntries \in SeqsUpTo(EntrySamples, MaxEntries)
  /\ project \in ProjectSamples
  /\ componentsToSkip = <<>> /\ componentsToProcess = <<>>
  /\ sourceComponents = <<>>
  /\ records = <<>> /\ sent = <<>> /\ pending = {} /\ promises = <<>> /\ order = <<>>
  /\ remote = <<>> /\ enrichmentResults = <<>> /\ metrics = NewEnrichmentMetrics
  /\ files = <<>> /\ files0 = <<>> /\ writes = <<>> /\ fileContents = <<>> /\ cursor = 0
  /\ xmlArg = R1 /\ xmlOuts = <<>>

NextRun ==
  \/ BuildComponentSet
  \/ Classify
  \/ CreateRecords
  \/ IssueRequests
  \/ \E i \in DOMAIN records : Settle(i)
  \/ Collect
  \/ StartMerge
  \/ ReadXmlFiles
  \/ MergeStep
  \/ MergeReturn
  \/ Report

SpecRun == InitRun /\ [][NextRun]_vars

\* what the claims say of a run
Discovered == getSourceComponents(project, metadataEntries)
HasClassified == pc \notin {"run", "built"} /\ ~BuildThrows(metadataEntries)
HasIssued == HasClassified /\ pc \notin {"enrich", "send"}
SkipNames == {componentsToSkip[k].componentName : k \in DOMAIN componentsToSkip}

\* a request was sent for the component
RequestSentFor(component) ==
  \E i \in DOMAIN records :
     /\ sent[i] > 0
     /\ records[i].componentName = component.fullName
     /\ records[i].componentType = component.type

\* C13 as claimed: once run has classified, every requested identifier with a
\* concrete name that is the name of a discovered component of another kind than
\* LightningComponentBundle has a skip record saying that only Lightning Web
\* Components are supported, and no request is ever sent for that component.
C13_NonLwcSkipped ==
  HasClassified =>
     \A k \in DOMAIN metadataEntries : \A c \in Range(Discovered) :
        ( /\ NamesConcrete(metadataEntries[k])
          /\ c.fullName = metadataName(metadataEntries[k])
          /\ c.type # LWC )
          => /\ SkipsOf(c.fullName, OnlyLwcMessage) # {}
             /\ ~RequestSentFor(c)

\* C15 as claimed: no skip record stems from a wildcard identifier, and every
\* component a request is sent for is named by an identifier that is no wildcard.
C15_AsClaimed ==
  /\ \A h \in DOMAIN componentsToSkip :
        \E k \in DOMAIN metadataEntries :
           /\ ~IsWildcard(metadataEntries[k])
           /\ metadataName(metadataEntries[k]) = componentsToSkip[h].componentName
  /\ \A i \in DOMAIN records :
        sent[i] > 0 =>
           \E k \in DOMAIN metadataEntries :
              /\ ~IsWildcard(metadataEntries[k])
              /\ metadataName(metadataEntries[k]) = records[i].componentName

\* C15 amended: no skip record stems from a wildcard identifier (every skip record
\* has the name of an identifier that is no wildcard); and once the requests have
\* been issued, every discovered component that a wildcard identifier matches has
\* had exactly one request sent for it, unless a skip record has its name or none
\* of its content files can be read.
C15_WildcardNeverSkipped ==
  /\ \A h \in DOMAIN componentsToSkip :
        \E k \in DOMAIN metadataEntries :
           /\ ~IsWildcard(metadataEntries[k])
           /\ metadataName(metadataEntries[k]) = componentsToSkip[h].componentName
  /\ HasIssued =>
       \A c \in Range(Discovered) :
          ( /\ \E k \in DOMAIN metadataEntries :
                  IsWildcard(metadataEntries[k]) /\ EntryMatches(metadataEntries[k], c)
            /\ c.fullName \notin SkipNames
            /\ readComponentFiles(c) # <<>> )
            => \E i \in DOMAIN records :
                  /\ records[i].componentName = c.fullName
                  /\ records[i].componentType = c.type
                  /\ sent[i] = 1

C15_Witness ==
  /\ pc = "done"
  /\ metadataEntries # <<>>
  /\ \A k \in DOMAIN metadataEntries : IsWildcard(metadataEntries[k])
  /\ Len(Discovered) = 2
  /\ \A c \in Range(Discovered) : RequestSentFor(c)
  /\ componentsToSkip = <<>>

\* C16: at every moment of run, no request has been sent for a component name that
\* a skip record carries.
C16_NoRequestForSkipped ==
  \A i \in DOMAIN records : sent[i] > 0 => records[i].componentName \notin SkipNames

C16_Witness ==
  /\ pc = "done"
  /\ \E c \in Range(Discovered) : c.fullName \in SkipNames /\ readComponentFiles(c) # <<>>
  /\ \E i \in DOMAIN records : sent[i] > 0

Buckets == {"success", "fail", "skipped"}

\* the buckets that list the name, and those that list the kind and the name
BucketsNaming(name) ==
  {b \in Buckets : \E k \in DOMAIN metrics[b].components :
                      metrics[b].components[k].componentName = name}

BucketsListing(type, name) ==
  {b \in Buckets : \E k \in DOMAIN metrics[b].components :
                      /\ metrics[b].components[k].type = type
                      /\ metrics[b].components[k].componentName = name}

\* a discovered component that is eligible and has a content file that can be read
EligibleAndReadable(c) ==
  /\ c.type = LWC /\ c.xml # NoXml /\ c.fullName \notin SkipNames
  /\ readComponentFiles(c) # <<>>

C19_NoRequestDropped ==
  pc = "done" =>
     \A k \in DOMAIN metadataEntries :
        (KindIsKnown(metadataEntries[k]) /\ NamesConcrete(metadataEntries[k]))
          => BucketsNaming(metadataName(metadataEntries[k])) # {}

-----------------------------------------------------------------------------
(* Further properties of updateMetadataFiles and sendEnrichmentRequests *)

\* C25 as claimed: updateMetadataFiles never calls writeFile on an xml file whose
\* opt-out flag is true (in any letter case), whatever its record holds.
C25_NoWriteWhenOptedOut ==
  \A i \in DOMAIN files : FlagIsTrue(files0[i].doc) => writes[i] = 0

\* C26 as claimed: when updateMetadataFiles has returned, every component whose
\* *.js-meta.xml file could not be read, and whose record has a response with a
\* result, has the read error in the message of its record.
C26_ReadErrorCaptured ==
  pc = "merged" =>
     \A i \in DOMAIN sourceComponents :
        (sourceComponents[i].xml = JsMetaXml /\ ~files0[i].readable /\ HasResult(i))
          => enrichmentResults[FindRecord(enrichmentResults,
                                          sourceComponents[i].fullName)].message.set

\* C27 as claimed: when sendEnrichmentRequests has returned, the record of every
\* request whose remote call returned a body without a result list has no response
\* and has a message.
C27_MalformedIsFailure ==
  pc = "returned" =>
     \A i \in DOMAIN records :
        (remote[i].ok /\ remote[i].body.kind = "noResults")
          => /\ ~HasResponse(enrichmentResults[i])
             /\ enrichmentResults[i].message.set

\* C28 as claimed: a requested identifier whose name is exactly "all" is discarded
\* like a wildcard, so no skip record carries the name "all".
C28_AsClaimed ==
  pc = "classified" =>
     \A h \in DOMAIN componentsToSkip : componentsToSkip[h].componentName # "all"

\* C28 amended: the name "all" is a name like any other: a requested identifier of
\* a kind the registry knows whose name is "all", when no source component is
\* named "all", has a skip record with its kind, the name "all" and the reason
\* 'Not found in source project'.
C28_AllIsAName ==
  pc = "classified" =>
     \A k \in DOMAIN metadataEntries :
        ( /\ KindIsKnown(metadataEntries[k])
          /\ metadataName(metadataEntries[k]) = "all"
          /\ "all" \notin SourceNames )
          => \E h \in SkipsOf("all", NotFoundMessage) :
                componentsToSkip[h].type = KindOf(metadataEntries[k])

C28_Witness ==
  /\ pc = "classified"
  /\ sourceComponents # <<>>
  /\ \E k, h \in DOMAIN metadataEntries :
       metadataName(metadataEntries[k]) = "all" /\ metadataName(metadataEntries[h]) = "*"
  /\ Len(componentsToSkip) = 1
  /\ componentsToSkip[1].componentName = "all"

\* the identifier names, by its name, a source LightningComponentBundle that has
\* its *.js-meta.xml file
MatchesEligible(rawEntry) ==
  \E i \in DOMAIN sourceComponents :
     /\ sourceComponents[i].fullName = metadataName(rawEntry)
     /\ sourceComponents[i].type = LWC
     /\ sourceComponents[i].xml # NoXml

SkipsFor(rawEntry) ==
  {h \in DOMAIN componentsToSkip :
     /\ componentsToSkip[h].type = KindOf(rawEntry)
     /\ componentsToSkip[h].componentName = metadataName(rawEntry)}

\* C22 as claimed: of the requested identifiers of a kind the registry knows and
\* with a concrete name, each one that matches a source LightningComponentBundle
\* with its *.js-meta.xml file has no skip record, and each other one has exactly
\* one skip record.
C22_ExactlyOneSkipRecord ==
  pc = "classified" =>
     \A k \in DOMAIN metadataEntries :
        (KindIsKnown(metadataEntries[k]) /\ NamesConcrete(metadataEntries[k]))
          => Cardinality(SkipsFor(metadataEntries[k]))
               = IF MatchesEligible(metadataEntries[k]) THEN 0 ELSE 1

\* C29 as claimed: at every moment of run, every component a request has been sent
\* for is a discovered LightningComponentBundle that has its *.js-meta.xml file.
C29_OnlyEligibleDispatched ==
  \A i \in DOMAIN records :
     sent[i] > 0 =>
        /\ records[i].componentType = LWC
        /\ \E c \in Range(Discovered) :
              /\ c.fullName = records[i].componentName
              /\ c.type = LWC
              /\ c.xml # NoXml

\* every request of the batch has been sent once and has settled
AllSettled ==
  /\ pending = {}
  /\ \A i \in DOMAIN records :
        sent[i] = 1 /\ promises[i].status \in {"fulfilled", "rejected"}

\* the loop of updateMetadataFiles has gone through every file it read
MergeFinished == cursor >= 1 /\ cursor > Len(fileContents)

\* C24: at every moment of run, a request has been sent only if classification has
\* produced the skip list, an xml file has been written only if every request of
\* the batch has settled, and the metrics have been computed only if the merge
\* step has finished.
C24_StagesInOrder ==
  /\ pc = "enrich" => componentsToSkip = getComponentsToSkip(Discovered, metadataEntries)
  /\ (\E i \in DOMAIN records : sent[i] > 0) => HasIssued
  /\ (\E i \in DOMAIN writes : writes[i] > 0) => AllSettled
  /\ (pc = "done" \/ metrics # NewEnrichmentMetrics) => (AllSettled /\ MergeFinished)

C24_Witness ==
  /\ pc = "done"
  /\ componentsToSkip # <<>>
  /\ \E i \in DOMAIN writes : writes[i] = 1
  /\ metrics.success.count = 1 /\ metrics.skipped.count >= 1

\* the statuses of the records that have a response (or of those that have none),
\* in the order of the records
RECURSIVE StatusesWhere(_, _)
StatusesWhere(recs, withResponse) ==
  IF recs = <<>> THEN <<>>
  ELSE (IF HasResponse(Head(recs)) = withResponse THEN <<StatusOf(Head(recs))>> ELSE <<>>)
         \o StatusesWhere(Tail(recs), withResponse)

\* the update of component i's support file was attempted and the write was refused
UpdateFailed(i) ==
  /\ sourceComponents[i].xml = JsMetaXml
  /\ files0[i].readable /\ ~files0[i].writable
  /\ HasResult(i)

\* C30: once the requests have been collected, through the merge and up to the
\* report, the response of every record is the one its request produced; a record
\* whose request succeeded and whose support file could not be updated keeps that
\* response and carries the error as its message; and the metrics list exactly the
\* records with a response in the success bucket, each with its message, and
\* exactly the records without one in the fail bucket.
C30_ResponseSurvivesMerge ==
  /\ pc \in {"returned", "merge", "loop", "merged", "done"}
       => /\ Len(enrichmentResults) = Len(records)
          /\ \A i \in DOMAIN records :
                enrichmentResults[i].response =
                  (IF remote[i].ok THEN remote[i].body ELSE NullResponse)
  /\ pc \in {"merged", "done"}
       => \A i \in DOMAIN sourceComponents :
             UpdateFailed(i)
               => LET j == FindRecord(enrichmentResults, sourceComponents[i].fullName) IN
                  /\ HasResponse(enrichmentResults[j])
                  /\ enrichmentResults[j].message = Message(<<"EACCES: permission denied">>)
  /\ pc = "done"
       => /\ metrics.success.components = StatusesWhere(enrichmentResults, TRUE)
          /\ metrics.fail.components = StatusesWhere(enrichmentResults, FALSE)

C30_Witness ==
  /\ pc = "done"
  /\ \E i \in DOMAIN sourceComponents :
        /\ UpdateFailed(i)
        /\ \E k \in DOMAIN metrics.success.components :
              /\ metrics.success.components[k].componentName = sourceComponents[i].fullName
              /\ metrics.success.components[k].message = <<"EACCES: permission denied">>
  /\ metrics.fail.count = 0

-----------------------------------------------------------------------------
(* sendEnrichmentRequests under fair scheduling *)

\* The synchronous part of the function runs to its await, and the continuation of
\* Promise.allSettled runs once it is ready (lines 203-205); that every request in
\* flight eventually settles is the hypothesis under which completion is claimed.
FairDispatch ==
  /\ WF_vars(IssueRequests)
  /\ \A i \in 1..MaxRecords : WF_vars(Settle(i))
  /\ WF_vars(Collect)

SpecDispatchLive == InitDispatch /\ [][NextDispatch]_vars /\ FairDispatch

\* every request of the batch has settled, fulfilled or rejected
EveryRequestSettled ==
  /\ pending = {}
  /\ \A i \in DOMAIN records : promises[i].status \in {"fulfilled", "rejected"}

\* C23: sendEnrichmentRequests has returned only when every request of the batch has
\* settled, whether fulfilled or rejected, and then returns one record per request;
\* and when every request eventually settles, it eventually returns.
C23_CompletesAfterAllSettle ==
  /\ [](pc = "returned"
          => EveryRequestSettled /\ Len(enrichmentResults) = Len(records))
  /\ <>(pc = "returned")

C23_Witness ==
  /\ pc = "returned"
  /\ Len(records) >= 2
  /\ order[1] # 1
  /\ promises[order[1]].status = "rejected"
  /\ \E i \in DOMAIN records : promises[i].status = "fulfilled"

-----------------------------------------------------------------------------
(* EnrichmentHandler.createEnrichmentRequestRecords and its content bundles *)

\* the content files walkContent lists for a component, with the reads that fail
ContentSamples ==
  {<<>>,
   <<ContentFile(".js", TRUE)>>,
   <<ContentFile(".js", FALSE)>>,
   <<ContentFile(".js", TRUE), ContentFile(".html", FALSE)>>,
   <<ContentFile(".js", FALSE), ContentFile(".html", TRUE), ContentFile(".css", TRUE)>>,
   <<ContentFile(".js", FALSE), ContentFile(".html", FALSE)>>,
   <<ContentFile(".js", TRUE), NestedFile("utils", ".js", TRUE)>>,
   <<ContentFile(".js", FALSE), NestedFile("utils", ".js", TRUE)>>,
   <<ContentFile(".js", TRUE), NestedFile("utils", ".js", FALSE)>>}

BundleSamples ==
  {ProjectComponent(n, LWC, JsMetaXml, c, File(OptIn, TRUE, TRUE)) :
     n \in Names, c \in ContentSamples}

InitBundle ==
  /\ pc = "enrich"
  /\ componentsToProcess \in SeqsUpTo(BundleSamples, MaxComponents)
  /\ metadataEntries = <<>> /\ project = componentsToProcess /\ componentsToSkip = <<>>
  /\ sourceComponents = componentsToProcess
  /\ records = <<>> /\ sent = <<>> /\ pending = {} /\ promises = <<>> /\ order = <<>>
  /\ remote = <<>> /\ enrichmentResults = <<>> /\ metrics = NewEnrichmentMetrics
  /\ files = <<>> /\ files0 = <<>> /\ writes = <<>> /\ fileContents = <<>> /\ cursor = 0
  /\ xmlArg = R1 /\ xmlOuts = <<>>

NextBundle == CreateRecords

SpecBundle == InitBundle /\ [][NextBundle]_vars

\* the component has a content file that can be read
HasReadableFile(c) == \E k \in DOMAIN c.content : c.content[k].readable

\* the paths of the component's content files that can be read
ReadablePaths(c) ==
  {filePath(c, c.content[k]) : k \in {h \in DOMAIN c.content : c.content[h].readable}}

\* the position in the records of the record of the i-th component given to the
\* builder: the number of components up to it that have a readable file
RecordPosition(i) ==
  Cardinality({j \in 1..i : HasReadableFile(componentsToProcess[j])})

\* the bundle of a record, and the paths of the files whose text it carries
BundleOf(record) == record.requestBody.contentBundles[1]
PathsIn(bundle) == {bundle.files[b].content : b \in DOMAIN bundle.files}

\* every component with a readable file has its one record, in the order given
OneRecordPerReadableComponent ==
  /\ Len(records) = RecordPosition(Len(componentsToProcess))
  /\ \A i \in DOMAIN componentsToProcess :
        HasReadableFile(componentsToProcess[i])
          => /\ records[RecordPosition(i)].componentName = componentsToProcess[i].fullName
             /\ Len(records[RecordPosition(i)].requestBody.contentBundles) = 1
             /\ BundleOf(records[RecordPosition(i)]).resourceName
                  = componentsToProcess[i].fullName

\* C21 as stated: once the records are built, every component with a readable file
\* has exactly one record, whatever was read for the other components, and its
\* bundle carries exactly the files of the component that could be read.
C21_AsClaimed ==
  pc = "send"
    => /\ OneRecordPerReadableComponent
       /\ \A i \in DOMAIN componentsToProcess :
             HasReadableFile(componentsToProcess[i])
               => PathsIn(BundleOf(records[RecordPosition(i)]))
                    = ReadablePaths(componentsToProcess[i])

\* the last of the component's readable files with the basename b
LastReadableNamed(c, b) ==
  LET k == CHOOSE k \in DOMAIN c.content :
             /\ c.content[k].readable /\ basename(filePath(c, c.content[k])) = b
             /\ \A h \in DOMAIN c.content :
                   (c.content[h].readable /\ basename(filePath(c, c.content[h])) = b)
                     => h <= k
  IN filePath(c, c.content[k])

\* C21: once the records are built, every component with a readable file has
\* exactly one record, whatever was read for the other components; its bundle has
\* one entry per basename of the component's readable files and no other, and the
\* entry carries the text of the last readable file with that basename, so that an
\* unreadable file never appears and never displaces a readable one.
C21_ReadableFilesByBasename ==
  pc = "send"
    => /\ OneRecordPerReadableComponent
       /\ \A i \in DOMAIN componentsToProcess :
             LET c == componentsToProcess[i]
                 bundle == BundleOf(records[RecordPosition(i)])
             IN HasReadableFile(c)
                  => /\ DOMAIN bundle.files = {basename(p) : p \in ReadablePaths(c)}
                     /\ \A b \in DOMAIN bundle.files :
                           /\ bundle.files[b].filename = b
                           /\ bundle.files[b].content = LastReadableNamed(c, b)

C21_Witness ==
  /\ pc = "send"
  /\ Len(componentsToProcess) = 2 /\ Len(records) = 2
  /\ \E k \in DOMAIN componentsToProcess[1].content :
        ~componentsToProcess[1].content[k].readable
  /\ Cardinality(DOMAIN BundleOf(records[1]).files) = 2
  /\ \A k \in DOMAIN componentsToProcess[2].content :
        componentsToProcess[2].content[k].readable

====
